---- MODULE Spec2Model ----
(***************************************************************************)
(* State-machine model of the permission-gated business-logic core of the  *)
(* storefront: BusinessLogicService (src/src/services/                     *)
(* businessLogicService.js), SessionValidationService (src/src/services/   *)
(* sessionValidationService.js) and the document-store security rules      *)
(* (src/firestore.rules).  Every asynchronous method is cut at its awaits: *)
(* one action per resumption.                                              *)
(***************************************************************************)
EXTENDS Integers, Sequences, FiniteSets, TLC

VARIABLES
    currentUser,   \* auth.currentUser: a uid or NoUser
    users,         \* system of record: users/{uid}
    products,      \* system of record: products/{id}
    orders,        \* system of record: orders/{id}
    orderCalls,    \* the processOrder calls in flight, by call
    products0,     \* history: products/{id} as they were before the first call
    now,           \* Date.now(), in milliseconds
    sessionCache,  \* SessionValidationService.sessionCache: a Map from cache key to entry
    roleCalls,     \* the validateUserRole / checkPermission calls in flight, by call
    lastResult,    \* the outcome of the call that ended last
    productCalls,  \* the createProduct calls, by call
    cleared,       \* history: the subjects clearCache was called for, with no check begun since
    roleChangedAt, \* history: when the role of each user record last changed
                   \* (the field late of a call in flight is history too: the call began
                   \* a cacheTimeout or longer after the last change of the role)
    cart,          \* useCartStore: cart, the sequence of cart items
    loading,       \* useCartStore: loading
    error,         \* useCartStore: error, a message or "null"
    unsubscribe,   \* useCartStore: unsubscribe, the listener the stored function cancels (0: null)
    listeners,     \* the listeners onSnapshot has opened, in the order they were opened
    carts,         \* system of record: carts/{uid}
    cartCalls,     \* the cart mutations (addToCart, ...) in flight, by call
    loadCalls,     \* the loadCart calls in flight, by call
    version,       \* history: the number of writes each cart document has received
    adopted,       \* history: the version of the last authoritative write adopted locally
    storage        \* localStorage["ramro-cart-storage"]: the persisted cart

permVars == <<now, sessionCache, roleCalls, lastResult, cleared, roleChangedAt>>

\* the cart store (src/src/store/cartStore.js), its listeners and the cart documents
cartVars == <<cart, loading, error, unsubscribe, listeners, carts, cartCalls, loadCalls,
              version, adopted, storage>>

vars == <<currentUser, users, products, orders, orderCalls, products0, permVars, productCalls,
          cartVars>>

(***************************************************************************)
(* Bounds of the model.                                                    *)
(***************************************************************************)
MaxStock == 1        \* largest quantityAvailable a product or a snapshot starts with
MaxQty == 1          \* largest quantity of one order item
NumOrderCalls == 2   \* processOrder calls that may be in flight together

(***************************************************************************)
(* Identities.  A uid is a sequence of characters, so that one uid can be  *)
(* a prefix of another.                                                    *)
(***************************************************************************)
U1 == <<"a">>
U2 == <<"a", "b">>
Subjects == {U1, U2}
NoUser == <<>>

ProductIds == {"p1", "p2"}
OrderProcs == 1..NumOrderCalls

NoDoc == [exists |-> FALSE, role |-> "none", suspended |-> FALSE, deactivated |-> FALSE]
UserRec(r, s, d) == [exists |-> TRUE, role |-> r, suspended |-> s, deactivated |-> d]

NoProduct == [exists |-> FALSE, quantityAvailable |-> 0]
ProductRec(q) == [exists |-> TRUE, quantityAvailable |-> q]

(***************************************************************************)
(* Inputs of processOrder: the items of orderData, each carrying the       *)
(* caller's snapshot of the product (quantityAvailable) and the ordered    *)
(* quantity, and the presence of the shipping address and of the total.    *)
(***************************************************************************)
Items == [id : ProductIds, quantity : 1..MaxQty, quantityAvailable : 0..MaxStock]
ItemLists == {<<>>} \cup {<<a>> : a \in Items} \cup {<<a, b>> : a \in Items, b \in Items}
OrderDatas == [items : ItemLists, shipping : {TRUE}, total : {TRUE}]
              \cup [items : {<<a>> : a \in Items}, shipping : BOOLEAN, total : BOOLEAN]

NoOrderData == [items |-> <<>>, shipping |-> FALSE, total |-> FALSE]
IdleCall == [pc |-> "idle", userId |-> NoUser, data |-> NoOrderData, idx |-> 0,
             err |-> "none", orderId |-> 0]

(***************************************************************************)
(* firestore.rules                                                         *)
(***************************************************************************)
isAdmin == currentUser # NoUser
           /\ users[currentUser].exists
           /\ users[currentUser].role = "admin"

isAuthenticated == currentUser # NoUser

\* match /orders/{orderId}: allow create
OrderCreateAllowed(userId, data) ==
    isAuthenticated /\ currentUser = userId /\ data.total

\* match /products/{productId}: allow write
ProductWriteAllowed == isAdmin

(***************************************************************************)
(* processOrder                                                            *)
(***************************************************************************)
\* the call ends by throwing msg (its arguments are dropped with its frame)
Fail(c, msg) == [orderCalls EXCEPT ![c] =
    [IdleCall EXCEPT !.pc = "thrown", !.err = msg, !.orderId = orderCalls[c].orderId]]

\* the call ends by returning the order it created
Return(c) == [orderCalls EXCEPT ![c] =
                [IdleCall EXCEPT !.pc = "returned", !.orderId = orderCalls[c].orderId]]

\* processOrder is called: validateActiveSession is awaiting getDoc(users/userId)
OrderStart(c, data, userId) ==
    /\ orderCalls[c].pc = "idle"
    /\ \A b \in OrderProcs : b < c => orderCalls[b].pc # "idle"
    /\ orderCalls' = [orderCalls EXCEPT ![c] =
            [IdleCall EXCEPT !.pc = "session", !.userId = userId, !.data = data]]
    /\ UNCHANGED <<currentUser, users, products, orders, products0, permVars, productCalls, cartVars>>

\* ValidateSession without the check of userData.suspended
ValidateSession_NoSuspendedCheck(c) ==
    LET call == orderCalls[c]
        userDoc == users[call.userId]
    IN  /\ call.pc = "session"
        /\ orderCalls' =
             IF ~userDoc.exists THEN Fail(c, "Invalid user session")
             ELSE IF Len(call.data.items) = 0
                  THEN Fail(c, "Order must contain at least one item")
             ELSE IF ~call.data.shipping THEN Fail(c, "Shipping address is required")
             ELSE [orderCalls EXCEPT ![c].pc = "orderData", ![c].idx = 1]
        /\ UNCHANGED <<currentUser, users, products, orders, products0, permVars, productCalls, cartVars>>

\* validateActiveSession resumes with the user document; validateOrderData runs
\* up to its first getDoc
ValidateSession(c) ==
    LET call == orderCalls[c]
        userDoc == users[call.userId]
    IN  /\ call.pc = "session"
        /\ orderCalls' =
             IF ~userDoc.exists THEN Fail(c, "Invalid user session")
             ELSE IF userDoc.suspended THEN Fail(c, "User account suspended")
             ELSE IF Len(call.data.items) = 0
                  THEN Fail(c, "Order must contain at least one item")
             ELSE IF ~call.data.shipping THEN Fail(c, "Shipping address is required")
             ELSE [orderCalls EXCEPT ![c].pc = "orderData", ![c].idx = 1]
        /\ UNCHANGED <<currentUser, users, products, orders, products0, permVars, productCalls, cartVars>>

\* one round of the loop of validateOrderData: getDoc(products/item.id) resumes
ValidateOrderItem(c) ==
    LET call == orderCalls[c]
        item == call.data.items[call.idx]
        product == products[item.id]
    IN  /\ call.pc = "orderData"
        /\ orderCalls' =
             IF ~product.exists THEN Fail(c, "Product not found")
             ELSE IF product.quantityAvailable < item.quantity
                  THEN Fail(c, "Insufficient stock")
             ELSE IF call.idx < Len(call.data.items)
                  THEN [orderCalls EXCEPT ![c].idx = call.idx + 1]
             ELSE [orderCalls EXCEPT ![c].pc = "inventory", ![c].idx = 1]
        /\ UNCHANGED <<currentUser, users, products, orders, products0, permVars, productCalls, cartVars>>

\* inventoryService.checkAvailability(id): the current quantityAvailable of the product
checkAvailability(id) == products[id].quantityAvailable

\* one round of the loop of validateInventoryAvailability; after the last round the
\* batch is built and batch.commit() is awaited
ValidateInventory(c) ==
    LET call == orderCalls[c]
        item == call.data.items[call.idx]
    IN  /\ call.pc = "inventory"
        /\ orderCalls' =
             IF checkAvailability(item.id) < item.quantity
                  THEN Fail(c, "Insufficient inventory")
             ELSE IF call.idx < Len(call.data.items)
                  THEN [orderCalls EXCEPT ![c].idx = call.idx + 1]
             ELSE [orderCalls EXCEPT ![c].pc = "commit"]
        /\ UNCHANGED <<currentUser, users, products, orders, products0, permVars, productCalls, cartVars>>

\* the value batch.update writes for one item
BatchQuantity(item) == item.quantityAvailable - item.quantity

\* the product documents after the updates of the batch, applied in order
RECURSIVE ApplyUpdates(_, _)
ApplyUpdates(prods, items) ==
    IF items = <<>> THEN prods
    ELSE ApplyUpdates(
            [prods EXCEPT ![Head(items).id].quantityAvailable = BatchQuantity(Head(items))],
            Tail(items))

\* the order document processOrder builds
NewOrder(c, id) ==
    [id |-> id, userId |-> orderCalls[c].userId, items |-> orderCalls[c].data.items,
     status |-> "processing"]

\* the document store accepts the batch: every write passes the rules and every
\* updated document exists
BatchAccepted(c) ==
    /\ OrderCreateAllowed(orderCalls[c].userId, orderCalls[c].data)
    /\ ProductWriteAllowed
    /\ \A i \in 1..Len(orderCalls[c].data.items) :
            products[orderCalls[c].data.items[i].id].exists

\* batch.commit() resumes: all writes applied, or none (rejected by the rules, or
\* a transport failure)
Commit(c, delivered) ==
    LET call == orderCalls[c]
        id == Cardinality(orders) + 1
    IN  /\ call.pc = "commit"
        /\ IF delivered /\ BatchAccepted(c)
           THEN /\ orders' = orders \cup {NewOrder(c, id)}
                /\ products' = ApplyUpdates(products, call.data.items)
                /\ orderCalls' = [orderCalls EXCEPT ![c].pc = "email", ![c].orderId = id]
           ELSE /\ orderCalls' = Fail(c, "Failed to process order")
                /\ UNCHANGED <<products, orders>>
        /\ UNCHANGED <<currentUser, users, products0, permVars, productCalls, cartVars>>

\* emailService.sendOrderConfirmation(order) resumes, resolved or rejected
SendConfirmation(c, sent) ==
    /\ orderCalls[c].pc = "email"
    /\ orderCalls' = IF sent THEN Return(c)
                     ELSE Fail(c, "Failed to process order")
    /\ UNCHANGED <<currentUser, users, products, orders, products0, permVars, productCalls, cartVars>>

(***************************************************************************)
(* SessionValidationService                                                *)
(***************************************************************************)
MaxTicks == 3        \* the clock stops after this many ticks
TickMs == 150000     \* milliseconds between two readings of the clock
NumRoleCalls == 2    \* validateUserRole / checkPermission calls in flight together

cacheTimeout == 5 * 60 * 1000

Roles == {"admin", "editor", "support", "customer"}
RoleProcs == 1..NumRoleCalls

\* `${currentUser.uid}_${requiredRole}`
cacheKey(uid, requiredRole) == uid \o <<"_", requiredRole>>

\* key.startsWith(userId)
startsWith(key, userId) ==
    Len(userId) <= Len(key) /\ SubSeq(key, 1, Len(userId)) = userId

NoError == [msg |-> "none", required |-> "none", actual |-> "none"]
Error(m) == [msg |-> m, required |-> "none", actual |-> "none"]
\* `Access denied. Required role: ${requiredRole}, current role: ${userData.role}`
AccessDenied(requiredRole, role) ==
    [msg |-> "Access denied", required |-> requiredRole, actual |-> role]

IdleRoleCall ==
    [pc |-> "idle", kind |-> "none", uid |-> NoUser, requiredRole |-> "none",
     action |-> "none", resource |-> "none", userDoc |-> NoDoc, late |-> FALSE,
     stale |-> FALSE]

NoResult ==
    [pc |-> "none", kind |-> "none", requiredRole |-> "none", fresh |-> FALSE,
     ret |-> NoDoc, err |-> NoError]

\* the permission matrix of checkPermission: permissions[role][resource] || []
permissions(role, resource) ==
    CASE role = "admin" /\ resource = "products" -> {"create", "read", "update", "delete"}
      [] role = "admin" /\ resource = "orders" -> {"read", "update", "delete"}
      [] role = "admin" /\ resource = "users" -> {"read", "update"}
      [] role = "admin" /\ resource = "analytics" -> {"read"}
      [] role = "admin" /\ resource = "settings" -> {"read", "update"}
      [] role = "editor" /\ resource = "products" -> {"create", "read", "update"}
      [] role = "editor" /\ resource = "orders" -> {"read", "update"}
      [] role = "editor" /\ resource = "analytics" -> {"read"}
      [] role = "support" /\ resource = "orders" -> {"read", "update"}
      [] role = "support" /\ resource = "users" -> {"read"}
      [] role = "customer" /\ resource = "orders" -> {"read"}
      [] role = "customer" /\ resource = "profile" -> {"read", "update"}
      [] OTHER -> {}

\* the call ends by throwing e
RoleThrow(call, fresh, e) ==
    [NoResult EXCEPT !.pc = "thrown", !.kind = call.kind,
                     !.requiredRole = call.requiredRole, !.fresh = fresh, !.err = e]

\* the call ends by returning (userData for validateUserRole, true for checkPermission)
RoleReturn(call, fresh, userData) ==
    [NoResult EXCEPT !.pc = "returned", !.kind = call.kind,
                     !.requiredRole = call.requiredRole, !.fresh = fresh, !.ret = userData]

\* validateUserRole has returned userData: the rest of checkPermission, if it is the caller
AfterValidate(call, fresh, userData) ==
    IF call.kind = "validateUserRole" THEN RoleReturn(call, fresh, userData)
    ELSE IF call.action \in permissions(userData.role, call.resource)
         THEN RoleReturn(call, fresh, userData)
         ELSE RoleThrow(call, fresh, Error("Permission denied"))

\* CacheHit with <= for <: an entry exactly cacheTimeout old is still used
CacheHit_Inclusive(key) ==
    /\ key \in DOMAIN sessionCache
    /\ (now - sessionCache[key].timestamp) <= cacheTimeout

\* this.sessionCache.get(cacheKey) is a usable entry
CacheHit(key) ==
    /\ key \in DOMAIN sessionCache
    /\ (now - sessionCache[key].timestamp) < cacheTimeout

\* the role of the user record of uid last changed a cacheTimeout ago, or longer
ChangedLongAgo(uid) == now >= roleChangedAt[uid] + cacheTimeout

\* BeginValidate without the test of cached.hasPermission
BeginValidate_IgnoreVerdict(c, kind, requiredRole, action, resource) ==
    LET key == cacheKey(currentUser, requiredRole)
        call == [IdleRoleCall EXCEPT !.kind = kind, !.requiredRole = requiredRole,
                                     !.action = action, !.resource = resource]
    IN  /\ roleCalls[c].pc = "idle"
        /\ \A b \in RoleProcs : b < c => roleCalls[b].pc # "idle"
        /\ IF currentUser = NoUser
           THEN /\ lastResult' = RoleThrow(call, FALSE, Error("User not authenticated"))
                /\ UNCHANGED roleCalls
           ELSE IF CacheHit(key)
           THEN /\ lastResult' =
                     AfterValidate(call, FALSE, sessionCache[key].userData)
                /\ UNCHANGED roleCalls
           ELSE /\ roleCalls' = [roleCalls EXCEPT ![c] =
                     [call EXCEPT !.pc = "fetching", !.uid = currentUser,
                                  !.late = ChangedLongAgo(currentUser)]]
                /\ UNCHANGED lastResult
        /\ cleared' = cleared \ {currentUser}
        /\ UNCHANGED <<now, sessionCache, roleChangedAt, currentUser, users, products,
                       orders, orderCalls, products0, productCalls, cartVars>>

\* validateUserRole(requiredRole) is called (kind validateUserRole), or
\* checkPermission(action, resource), which calls validateUserRole() with its default
\* requiredRole: up to the return from the cache or to the call of getDoc
BeginValidate(c, kind, requiredRole, action, resource) ==
    LET key == cacheKey(currentUser, requiredRole)
        call == [IdleRoleCall EXCEPT !.kind = kind, !.requiredRole = requiredRole,
                                     !.action = action, !.resource = resource]
    IN  /\ roleCalls[c].pc = "idle"
        /\ \A b \in RoleProcs : b < c => roleCalls[b].pc # "idle"
        /\ IF currentUser = NoUser
           THEN /\ lastResult' = RoleThrow(call, FALSE, Error("User not authenticated"))
                /\ UNCHANGED roleCalls
           ELSE IF CacheHit(key)
           THEN /\ lastResult' =
                     IF ~sessionCache[key].hasPermission
                     THEN RoleThrow(call, FALSE, Error("Insufficient permissions"))
                     ELSE AfterValidate(call, FALSE, sessionCache[key].userData)
                /\ UNCHANGED roleCalls
           ELSE /\ roleCalls' = [roleCalls EXCEPT ![c] =
                     [call EXCEPT !.pc = "fetching", !.uid = currentUser,
                                  !.late = ChangedLongAgo(currentUser)]]
                /\ UNCHANGED lastResult
        /\ cleared' = cleared \ {currentUser}
        /\ UNCHANGED <<now, sessionCache, roleChangedAt, currentUser, users, products,
                       orders, orderCalls, products0, productCalls, cartVars>>

\* the document store serves getDoc(users/uid)
FetchRead(c) ==
    /\ roleCalls[c].pc = "fetching"
    /\ roleCalls' = [roleCalls EXCEPT ![c].pc = "fetched",
                                      ![c].userDoc = users[roleCalls[c].uid]]
    /\ UNCHANGED <<now, sessionCache, lastResult, cleared, roleChangedAt, currentUser,
                   users, products, orders, orderCalls, products0, productCalls, cartVars>>

\* the entry validateUserRole stores
CacheEntry(hasPermission, userData) ==
    [hasPermission |-> hasPermission, userData |-> userData, timestamp |-> now]

\* this.sessionCache.set(key, entry)
CacheSet(key, entry) ==
    [k \in DOMAIN sessionCache \cup {key} |-> IF k = key THEN entry ELSE sessionCache[k]]

\* validateUserRole resumes with the user document
FetchResume(c) ==
    LET call == roleCalls[c]
        userData == call.userDoc
        hasPermission == userData.role = call.requiredRole
        key == cacheKey(call.uid, call.requiredRole)
    IN  /\ call.pc = "fetched"
        /\ roleCalls' = [roleCalls EXCEPT ![c] = IdleRoleCall]
        /\ IF ~userData.exists
           THEN /\ lastResult' = RoleThrow(call, TRUE, Error("User document not found"))
                /\ UNCHANGED sessionCache
           ELSE IF userData.suspended
           THEN /\ lastResult' = RoleThrow(call, TRUE, Error("User account suspended"))
                /\ UNCHANGED sessionCache
           ELSE IF userData.deactivated
           THEN /\ lastResult' = RoleThrow(call, TRUE, Error("User account deactivated"))
                /\ UNCHANGED sessionCache
           ELSE /\ sessionCache' = CacheSet(key, CacheEntry(hasPermission, userData))
                /\ lastResult' =
                       IF ~hasPermission
                       THEN RoleThrow(call, TRUE,
                                      AccessDenied(call.requiredRole, userData.role))
                       ELSE AfterValidate(call, TRUE, userData)
        /\ UNCHANGED <<now, cleared, roleChangedAt, currentUser, users, products,
                       orders, orderCalls, products0, productCalls, cartVars>>

\* the keys clearCache(userId) leaves in the Map
KeptKeys(userId) ==
    IF userId # NoUser THEN {k \in DOMAIN sessionCache : ~startsWith(k, userId)} ELSE {}

\* clearCache(userId); clearCache() is clearCache(NoUser)
\* (a call that holds a user document read before the clearing is marked stale)
clearCache(userId) ==
    /\ sessionCache' = [k \in KeptKeys(userId) |-> sessionCache[k]]
    /\ cleared' = IF userId # NoUser THEN cleared \cup {userId} ELSE cleared
    /\ roleCalls' = [c \in RoleProcs |->
                        IF roleCalls[c].pc = "fetched" /\ roleCalls[c].uid \in {userId} \cup
                                (IF userId = NoUser THEN Subjects ELSE {})
                        THEN [roleCalls[c] EXCEPT !.stale = TRUE] ELSE roleCalls[c]]
    /\ UNCHANGED <<now, lastResult, roleChangedAt, currentUser, users, products,
                   orders, orderCalls, products0, productCalls, cartVars>>

\* the clock advances
Tick ==
    /\ now < MaxTicks * TickMs
    /\ now' = now + TickMs
    /\ UNCHANGED <<sessionCache, roleCalls, lastResult, cleared, roleChangedAt, currentUser,
                   users, products, orders, orderCalls, products0, productCalls, cartVars>>

\* auth.currentUser changes: a sign-in, or a sign-out (NoUser)
AuthChange(u) ==
    /\ currentUser # u
    /\ currentUser' = u
    /\ UNCHANGED <<permVars, users, products, orders, orderCalls, products0, productCalls, cartVars>>

\* the system of record changes the user record of s
UserRecordChange(s, rec) ==
    /\ users[s] # rec
    /\ users' = [users EXCEPT ![s] = rec]
    /\ roleChangedAt' = IF rec.role # users[s].role
                        THEN [roleChangedAt EXCEPT ![s] = now] ELSE roleChangedAt
    /\ roleCalls' = [c \in RoleProcs |->
                        IF rec.role # users[s].role /\ roleCalls[c].uid = s
                        THEN [roleCalls[c] EXCEPT !.late = FALSE] ELSE roleCalls[c]]
    /\ UNCHANGED <<now, sessionCache, lastResult, cleared, currentUser, products, orders,
                   orderCalls, products0, productCalls, cartVars>>

\* firestore.rules, isValidUserData(): the record a write carries has email, displayName
\* and role, and its role is one of customer and admin
isValidUserData(rec) == rec.exists /\ rec.role \in {"customer", "admin"}

\* match /users/{userId}: allow write, allow create
UserWriteAllowed(userId, rec) ==
    isAuthenticated /\ currentUser = userId /\ isValidUserData(rec)

\* the signed-in subject's client writes rec to users/{userId} and the rules let it pass
UserWrite(userId, rec) ==
    /\ UserWriteAllowed(userId, rec)
    /\ UserRecordChange(userId, rec)

InitPermVars ==
    /\ now = 0
    /\ sessionCache = << >>
    /\ roleCalls = [c \in RoleProcs |-> IdleRoleCall]
    /\ lastResult = NoResult
    /\ cleared = {}
    /\ roleChangedAt = [s \in Subjects |-> 0]

(***************************************************************************)
(* createProduct                                                           *)
(***************************************************************************)
NumProductCalls == 1   \* createProduct calls in flight together
ProductProcs == 1..NumProductCalls

\* a numeric field of productData: a number, or undefined
Num(v) == [defined |-> TRUE, value |-> v]
Undefined == [defined |-> FALSE, value |-> 0]
NumValues == {Undefined} \cup {Num(v) : v \in -1..MaxStock}

\* productData: name, description and category are TRUE when they hold a non-empty text
ProductDatas ==
    [name : {TRUE}, description : {TRUE}, category : {TRUE},
     price : NumValues, quantityAvailable : NumValues]
    \cup {[name |-> n, description |-> d, category |-> g,
           price |-> Num(1), quantityAvailable |-> Num(1)] :
             n \in BOOLEAN, d \in BOOLEAN, g \in BOOLEAN}

NoProductData == [name |-> FALSE, description |-> FALSE, category |-> FALSE,
                  price |-> Undefined, quantityAvailable |-> Undefined]
IdleProductCall == [pc |-> "idle", data |-> NoProductData, id |-> "none", err |-> NoError]

\* !productData[field] for a numeric field
Falsy(x) == ~x.defined \/ x.value = 0

\* validateProductData: the message it throws, or "none"
validateProductData(productData) ==
    IF ~productData.name THEN "Missing required field: name"
    ELSE IF ~productData.description THEN "Missing required field: description"
    ELSE IF Falsy(productData.price) THEN "Missing required field: price"
    ELSE IF ~productData.category THEN "Missing required field: category"
    ELSE IF Falsy(productData.quantityAvailable)
         THEN "Missing required field: quantityAvailable"
    ELSE IF productData.price.value <= 0 THEN "Price must be greater than 0"
    ELSE IF productData.quantityAvailable.value < 0 THEN "Quantity cannot be negative"
    ELSE "none"

ProductThrow(c, e) ==
    [productCalls EXCEPT ![c] =
        [IdleProductCall EXCEPT !.pc = "thrown", !.id = productCalls[c].id, !.err = e]]

\* createProduct(productData, userRole) is called: up to the call of addDoc
CreateStart(c, productData, userRole) ==
    /\ productCalls[c].pc \in {"idle", "returned", "thrown"}
    /\ productCalls' =
         IF userRole # "admin"
         THEN [productCalls EXCEPT ![c] =
                [IdleProductCall EXCEPT !.pc = "thrown",
                    !.err = Error("Insufficient permissions to create products")]]
         ELSE IF validateProductData(productData) # "none"
         THEN [productCalls EXCEPT ![c] =
                [IdleProductCall EXCEPT !.pc = "thrown",
                    !.err = Error(validateProductData(productData))]]
         ELSE [productCalls EXCEPT ![c] =
                [IdleProductCall EXCEPT !.pc = "addDoc", !.data = productData]]
    /\ UNCHANGED <<currentUser, users, products, orders, orderCalls, products0, permVars, cartVars>>

\* addDoc(collection(db, 'products'), product) resumes: the document is created under a
\* new id, or the write is refused by the rules or lost
AddDoc(c, id, delivered) ==
    /\ productCalls[c].pc = "addDoc"
    /\ ~products[id].exists
    /\ IF delivered /\ ProductWriteAllowed
       THEN /\ products' = [products EXCEPT ![id] =
                               ProductRec(productCalls[c].data.quantityAvailable.value)]
            /\ productCalls' = [productCalls EXCEPT ![c].pc = "inventory", ![c].id = id]
       ELSE /\ productCalls' = ProductThrow(c, Error("Failed to create product"))
            /\ UNCHANGED products
    /\ UNCHANGED <<currentUser, users, orders, orderCalls, products0, permVars, cartVars>>

\* inventoryService.initializeInventory(docRef.id, quantityAvailable) resumes
InitializeInventory(c, done) ==
    /\ productCalls[c].pc = "inventory"
    /\ productCalls' = IF done THEN [productCalls EXCEPT ![c].pc = "search"]
                       ELSE ProductThrow(c, Error("Failed to create product"))
    /\ UNCHANGED <<currentUser, users, products, orders, orderCalls, products0, permVars, cartVars>>

\* syncProductToSearch resumes: a failure of the search index is logged and swallowed
SyncProductToSearch(c, indexed) ==
    /\ productCalls[c].pc = "search"
    /\ productCalls' = [productCalls EXCEPT ![c] =
            [IdleProductCall EXCEPT !.pc = "returned", !.id = productCalls[c].id]]
    /\ UNCHANGED <<currentUser, users, products, orders, orderCalls, products0, permVars, cartVars>>

(***************************************************************************)
(* updateProduct                                                           *)
(***************************************************************************)
\* updates: the fields an update sets (a field that is not set is undefined)
ProductUpdates ==
    [name : {FALSE}, description : {FALSE}, category : {FALSE},
     price : {Undefined, Num(0), Num(1)}, quantityAvailable : NumValues]

\* updateProduct(productId, updates, userRole) is called: validateUserPermissions,
\* then up to the call of updateDoc
UpdateStart(c, productId, updates, userRole) ==
    /\ productCalls[c].pc \in {"idle", "returned", "thrown"}
    /\ productCalls' =
         IF userRole # "admin"
         THEN [productCalls EXCEPT ![c] =
                [IdleProductCall EXCEPT !.pc = "thrown",
                    !.err = Error("Access denied. Required role: admin")]]
         ELSE [productCalls EXCEPT ![c] =
                [IdleProductCall EXCEPT !.pc = "updateDoc", !.data = updates,
                                        !.id = productId]]
    /\ UNCHANGED <<currentUser, users, products, orders, orderCalls, products0, permVars,
                   cartVars>>

\* updateDoc(doc(db, 'products', productId), updateData) resumes: the fields are merged
\* into the document, or the write is refused (by the rules, or because the document
\* does not exist) or lost
UpdateDoc(c, delivered) ==
    LET call == productCalls[c]
    IN  /\ call.pc = "updateDoc"
        /\ IF delivered /\ ProductWriteAllowed /\ products[call.id].exists
           THEN /\ products' = [products EXCEPT ![call.id] =
                        IF call.data.quantityAvailable.defined
                        THEN ProductRec(call.data.quantityAvailable.value) ELSE @]
                /\ productCalls' = [productCalls EXCEPT ![c].pc = "search"]
           ELSE /\ productCalls' = ProductThrow(c, Error("Failed to update product"))
                /\ UNCHANGED products
        /\ UNCHANGED <<currentUser, users, orders, orderCalls, products0, permVars, cartVars>>

(***************************************************************************)
(* The cart store (src/src/store/cartStore.js): the store's state, the     *)
(* listeners onSnapshot opens on carts/{uid}, and the cart documents.      *)
(* The store is wrapped in persist: every set writes the state to          *)
(* localStorage["ramro-cart-storage"] (functions are not serialised).      *)
(***************************************************************************)
MaxListeners == 6    \* listeners onSnapshot may open in one run
MaxPending == 2      \* snapshots that may wait for delivery at one listener
MaxVersion == 2      \* writes one cart document may receive
MaxCartQty == 2      \* largest quantity of one cart item
NumCartCalls == 1    \* cart mutations that may be in flight together
NumLoadCalls == 2    \* loadCart calls that may be in flight together

\* the products offered to the cart, with their prices
Price(id) == IF id = "p1" THEN 250 ELSE 300
CartProducts == {[id |-> i, price |-> Price(i)] : i \in ProductIds}

\* { ...product, quantity: qty }; owner is history: the subject whose cart the item is of
CartItem(product, qty, owner) ==
    [id |-> product.id, price |-> product.price, quantity |-> qty, owner |-> owner]

\* carts/{uid}: absent, or a document whose items field may be missing
NoCart == [exists |-> FALSE, hasItems |-> FALSE, items |-> <<>>]
CartDoc(items) == [exists |-> TRUE, hasItems |-> TRUE, items |-> items]
CartDocNoItems == [exists |-> TRUE, hasItems |-> FALSE, items |-> <<>>]

\* cartData.items || []
ItemsOf(cartDoc) == IF cartDoc.hasItems THEN cartDoc.items ELSE <<>>

\* the snapshot of carts/{uid} a listener is sent
Snapshot(uid) == [doc |-> carts[uid], version |-> version[uid]]

Set_NotPersisted(newCart, newLoading, newError) ==
    /\ cart' = newCart
    /\ loading' = newLoading
    /\ error' = newError
    /\ storage' = storage

\* set(...) of the persisted store: the state changes and is written to localStorage
Set(newCart, newLoading, newError) ==
    /\ cart' = newCart
    /\ loading' = newLoading
    /\ error' = newError
    /\ storage' = [cart |-> newCart, loading |-> newLoading, error |-> newError]

\* the function onSnapshot returned for listener l is called
Cancel(ls, l) == [ls EXCEPT ![l] = [@ EXCEPT !.live = FALSE, !.cancelled = TRUE,
                                            !.pending = <<>>]]

\* onSnapshot(doc(db, "carts", uid), ...): a new listener, sent the document as it is
Open_NoCancel(ls, handle, uid) ==
    Append(ls, [uid |-> uid, live |-> TRUE, cancelled |-> FALSE,
                pending |-> <<Snapshot(uid)>>])

\* the body of subscribeToCart for a signed-in user: the stored function is called
\* if there is one, then the new listener is opened; its function is stored
Open(ls, handle, uid) ==
    Open_NoCancel(IF handle # 0 THEN Cancel(ls, handle) ELSE ls, handle, uid)

subscribeToCart ==
    /\ currentUser # NoUser
    /\ Len(listeners) < MaxListeners
    /\ listeners' = Open(listeners, unsubscribe, currentUser)
    /\ unsubscribe' = Len(listeners')
    /\ UNCHANGED <<cart, loading, error, storage, carts, cartCalls, loadCalls, version, adopted,
                   currentUser, users, products, orders, orderCalls, products0, permVars,
                   productCalls>>

unsubscribeFromCart ==
    /\ unsubscribe # 0
    /\ listeners' = Cancel(listeners, unsubscribe)
    /\ unsubscribe' = 0
    /\ UNCHANGED <<cart, loading, error, storage, carts, cartCalls, loadCalls, version, adopted,
                   currentUser, users, products, orders, orderCalls, products0, permVars,
                   productCalls>>

\* the listeners of carts/{uid} that are sent its changes: the rules let the owner read
Watching(uid) ==
    {l \in 1..Len(listeners) : listeners[l].live /\ listeners[l].uid = uid
                               /\ currentUser = uid}

\* carts/{uid} becomes cartDoc: every listener of it is sent the new snapshot
WriteCart(uid, cartDoc) ==
    /\ version[uid] < MaxVersion
    /\ \A l \in Watching(uid) : Len(listeners[l].pending) < MaxPending
    /\ carts' = [carts EXCEPT ![uid] = cartDoc]
    /\ version' = [version EXCEPT ![uid] = @ + 1]
    /\ listeners' = [l \in 1..Len(listeners) |->
                        IF l \in Watching(uid)
                        THEN [listeners[l] EXCEPT !.pending =
                                Append(@, [doc |-> cartDoc, version |-> version[uid] + 1])]
                        ELSE listeners[l]]

\* a write made elsewhere (another device of the owner)
ServerWrite(uid, cartDoc) ==
    /\ carts[uid] # cartDoc
    /\ WriteCart(uid, cartDoc)
    /\ UNCHANGED <<cart, loading, error, storage, unsubscribe, cartCalls, loadCalls, adopted,
                   currentUser, users, products, orders, orderCalls, products0, permVars,
                   productCalls>>

\* the onSnapshot callback of listener l is called with the next snapshot
DeliverPush_Merge(l) ==
    /\ l \in 1..Len(listeners)
    /\ listeners[l].live
    /\ listeners[l].pending # <<>>
    /\ LET snap == Head(listeners[l].pending)
       IN  IF snap.doc.exists
           THEN Set(cart \o ItemsOf(snap.doc), FALSE, "null")
           ELSE Set(<<>>, FALSE, error)
    /\ listeners' = [listeners EXCEPT ![l].pending = Tail(@)]
    /\ UNCHANGED <<unsubscribe, carts, cartCalls, loadCalls, version, adopted,
                   currentUser, users, products, orders, orderCalls, products0, permVars,
                   productCalls>>

DeliverPush(l) ==
    /\ l \in 1..Len(listeners)
    /\ listeners[l].live
    /\ listeners[l].pending # <<>>
    /\ LET snap == Head(listeners[l].pending)
       IN  IF snap.doc.exists
           THEN Set(ItemsOf(snap.doc), FALSE, "null")
           ELSE Set(<<>>, FALSE, error)
    /\ listeners' = [listeners EXCEPT ![l].pending = Tail(@)]
    /\ UNCHANGED <<unsubscribe, carts, cartCalls, loadCalls, version, adopted,
                   currentUser, users, products, orders, orderCalls, products0, permVars,
                   productCalls>>

\* the error callback of listener l is called: the rules deny the read of carts/{uid}
\* to anyone but its owner, and a listener that failed is dead
ListenerError(l) ==
    /\ l \in 1..Len(listeners)
    /\ listeners[l].live
    /\ listeners[l].uid # currentUser
    /\ Set(cart, FALSE, "permission-denied")
    /\ listeners' = [listeners EXCEPT ![l] = [@ EXCEPT !.live = FALSE, !.pending = <<>>]]
    /\ UNCHANGED <<unsubscribe, carts, cartCalls, loadCalls, version, adopted,
                   currentUser, users, products, orders, orderCalls, products0, permVars,
                   productCalls>>

(***************************************************************************)
(* The cart operations of BusinessLogicService that the store awaits       *)
(* (addToCart, updateCartQuantity, removeFromCart, clearCart) and          *)
(* validateActiveSession of SessionValidationService.  The classes under   *)
(* src/src/services define none of them: as the source stands the call     *)
(* throws a TypeError inside the try, which is the rejected outcome below. *)
(* The resolved outcome is the one the specification describes: the        *)
(* authoritative mutation of carts/{uid}, returning the cart it wrote.     *)
(***************************************************************************)
CartProcs == 1..NumCartCalls
LoadProcs == 1..NumLoadCalls
CartOps == {"addToCart", "updateCartQuantity", "removeFromCart", "clearCart"}
NoItem == [id |-> "none", price |-> 0]
IdleCartCall == [pc |-> "idle", op |-> "none", uid |-> NoUser, product |-> NoItem, qty |-> 0,
                 caller |-> "none", arg |-> 0, result |-> <<>>, version |-> 0]
IdleLoadCall == [pc |-> "idle", uid |-> NoUser, doc |-> NoCart]

\* state.cart.find((item) => item.id === id)
HasItem(items, id) == \E i \in 1..Len(items) : items[i].id = id

\* the item sequence with the quantity of product raised by qty, or product appended
AddItem(items, product, qty, owner) ==
    IF HasItem(items, product.id)
    THEN [i \in 1..Len(items) |->
            IF items[i].id = product.id
            THEN [items[i] EXCEPT !.quantity = @ + qty] ELSE items[i]]
    ELSE Append(items, CartItem(product, qty, owner))

SetQuantity(items, id, qty) ==
    [i \in 1..Len(items) |->
        IF items[i].id = id THEN [items[i] EXCEPT !.quantity = qty] ELSE items[i]]

RemoveItem(items, id) == SelectSeq(items, LAMBDA item : item.id # id)

\* the cart the service writes to carts/{uid} and returns
AuthoritativeCart(call) ==
    LET items == ItemsOf(carts[call.uid])
    IN  CASE call.op = "addToCart" -> AddItem(items, call.product, call.qty, call.uid)
          [] call.op = "updateCartQuantity" -> SetQuantity(items, call.product.id, call.qty)
          [] call.op = "removeFromCart" -> RemoveItem(items, call.product.id)
          [] OTHER -> <<>>

\* the largest quantity in an item sequence (0 if it is empty)
MaxQuantity(items) ==
    IF items = <<>> THEN 0
    ELSE CHOOSE q \in {items[i].quantity : i \in 1..Len(items)} :
            \A i \in 1..Len(items) : items[i].quantity <= q

\* the service performs the mutation on the system of record
ServiceWrite(c) ==
    /\ cartCalls[c].pc = "awaiting"
    /\ currentUser = cartCalls[c].uid
    /\ MaxQuantity(AuthoritativeCart(cartCalls[c])) <= MaxCartQty
    /\ WriteCart(cartCalls[c].uid, CartDoc(AuthoritativeCart(cartCalls[c])))
    /\ cartCalls' = [cartCalls EXCEPT ![c] =
            [@ EXCEPT !.pc = "resolved", !.result = AuthoritativeCart(cartCalls[c]),
                      !.version = version[cartCalls[c].uid] + 1]]
    /\ UNCHANGED <<cart, loading, error, storage, unsubscribe, loadCalls, adopted,
                   currentUser, users, products, orders, orderCalls, products0, permVars,
                   productCalls>>

\* the service call fails
ServiceReject(c) ==
    /\ cartCalls[c].pc = "awaiting"
    /\ cartCalls' = [cartCalls EXCEPT ![c].pc = "rejected"]
    /\ UNCHANGED <<cart, loading, error, storage, unsubscribe, listeners, carts, loadCalls,
                   version, adopted, currentUser, users, products, orders, orderCalls,
                   products0, permVars, productCalls>>

(***************************************************************************)
(* addToCart, updateQuantity, removeFromCart, clearCart of the store.      *)
(***************************************************************************)
\* the call reaches its await
Await(c, op, product, qty, caller, arg) ==
    /\ currentUser # NoUser
    /\ cartCalls[c].pc = "idle"
    /\ cartCalls' = [cartCalls EXCEPT ![c] =
            [IdleCartCall EXCEPT !.pc = "awaiting", !.op = op, !.uid = currentUser,
                                 !.product = product, !.qty = qty, !.caller = caller,
                                 !.arg = arg]]
    /\ UNCHANGED <<cart, loading, error, storage, unsubscribe, listeners, carts, loadCalls,
                   version, adopted, currentUser, users, products, orders, orderCalls,
                   products0, permVars, productCalls>>

addToCart(c, product, qty) == Await(c, "addToCart", product, qty, "addToCart", qty)

removeFromCart(c, id) ==
    Await(c, "removeFromCart", [id |-> id, price |-> 0], 0, "removeFromCart", 0)

updateQuantity_NoRemoval(c, id, qty) ==
    Await(c, "updateCartQuantity", [id |-> id, price |-> 0], qty, "updateQuantity", qty)

updateQuantity(c, id, qty) ==
    IF qty <= 0
    THEN Await(c, "removeFromCart", [id |-> id, price |-> 0], 0, "updateQuantity", qty)
    ELSE Await(c, "updateCartQuantity", [id |-> id, price |-> 0], qty, "updateQuantity", qty)

clearCart(c) == Await(c, "clearCart", NoItem, 0, "clearCart", 0)

\* the awaited call has settled: set({ cart: updatedCart }), or the catch
CartCallResume_KeepLocal(c) ==
    /\ cartCalls[c].pc \in {"resolved", "rejected"}
    /\ IF cartCalls[c].pc = "resolved"
       THEN /\ Set(cart, loading, error)
            /\ adopted' = [uid |-> cartCalls[c].uid, version |-> cartCalls[c].version]
       ELSE /\ Set(cart, loading, "rejected")
            /\ UNCHANGED adopted
    /\ cartCalls' = [cartCalls EXCEPT ![c] = IdleCartCall]
    /\ UNCHANGED <<unsubscribe, listeners, carts, loadCalls, version,
                   currentUser, users, products, orders, orderCalls, products0, permVars,
                   productCalls>>

CartCallResume(c) ==
    /\ cartCalls[c].pc \in {"resolved", "rejected"}
    /\ IF cartCalls[c].pc = "resolved"
       THEN /\ Set(IF cartCalls[c].op = "clearCart" THEN <<>> ELSE cartCalls[c].result,
                   loading, error)
            /\ adopted' = [uid |-> cartCalls[c].uid, version |-> cartCalls[c].version]
       ELSE /\ Set(cart, loading, "rejected")
            /\ UNCHANGED adopted
    /\ cartCalls' = [cartCalls EXCEPT ![c] = IdleCartCall]
    /\ UNCHANGED <<unsubscribe, listeners, carts, loadCalls, version,
                   currentUser, users, products, orders, orderCalls, products0, permVars,
                   productCalls>>

\* the legacy local mutation: no user is required and nothing is written to carts/{uid}
addToCartLocal(product, qty) ==
    /\ MaxQuantity(AddItem(cart, product, qty, currentUser)) <= MaxCartQty
    /\ Set(AddItem(cart, product, qty, currentUser), loading, error)
    /\ UNCHANGED <<unsubscribe, listeners, carts, cartCalls, loadCalls, version, adopted,
                   currentUser, users, products, orders, orderCalls, products0, permVars,
                   productCalls>>

(***************************************************************************)
(* loadCart.                                                               *)
(***************************************************************************)
\* loadCart is called: loading is set and validateActiveSession is awaited
LoadStart(c) ==
    /\ currentUser # NoUser
    /\ loadCalls[c].pc = "idle"
    /\ \A d \in LoadProcs : d < c => loadCalls[d].pc # "idle"
    /\ Set(cart, TRUE, error)
    /\ loadCalls' = [loadCalls EXCEPT ![c] =
            [IdleLoadCall EXCEPT !.pc = "validating", !.uid = currentUser]]
    /\ UNCHANGED <<unsubscribe, listeners, carts, cartCalls, version, adopted,
                   currentUser, users, products, orders, orderCalls, products0, permVars,
                   productCalls>>

\* validateActiveSession has settled: getDoc(carts/uid) is awaited, or the catch
LoadValidated(c, active) ==
    /\ loadCalls[c].pc = "validating"
    /\ IF active
       THEN /\ loadCalls' = [loadCalls EXCEPT ![c].pc = "reading"]
            /\ UNCHANGED <<cart, loading, error, storage>>
       ELSE /\ loadCalls' = [loadCalls EXCEPT ![c] = IdleLoadCall]
            /\ Set(cart, FALSE, "rejected")
    /\ UNCHANGED <<unsubscribe, listeners, carts, cartCalls, version, adopted,
                   currentUser, users, products, orders, orderCalls, products0, permVars,
                   productCalls>>

\* the system of record answers getDoc(carts/uid): the rules let only the owner read
LoadRead(c) ==
    /\ loadCalls[c].pc = "reading"
    /\ IF currentUser = loadCalls[c].uid
       THEN loadCalls' = [loadCalls EXCEPT ![c] =
                            [@ EXCEPT !.pc = "read", !.doc = carts[loadCalls[c].uid]]]
       ELSE loadCalls' = [loadCalls EXCEPT ![c].pc = "denied"]
    /\ UNCHANGED <<cart, loading, error, storage, unsubscribe, listeners, carts, cartCalls,
                   version, adopted, currentUser, users, products, orders, orderCalls,
                   products0, permVars, productCalls>>

\* get().subscribeToCart(), n times in a row
RECURSIVE SubscribeTimes(_, _, _, _)
SubscribeTimes(n, ls, handle, uid) ==
    IF n = 0 \/ uid = NoUser THEN ls
    ELSE SubscribeTimes(n - 1, Open(ls, handle, uid), Len(ls) + 1, uid)

\* the number of get().subscribeToCart() calls loadCart makes after its read
SubscribeCalls == 3

\* getDoc has settled: the cart is set if the document exists, the listener is started;
\* or the catch
LoadResume(c) ==
    /\ loadCalls[c].pc \in {"read", "denied"}
    /\ IF loadCalls[c].pc = "read"
       THEN /\ Len(listeners) + SubscribeCalls <= MaxListeners
            /\ IF loadCalls[c].doc.exists
               THEN Set(ItemsOf(loadCalls[c].doc), FALSE, error)
               ELSE Set(cart, FALSE, error)
            /\ listeners' = SubscribeTimes(SubscribeCalls, listeners, unsubscribe, currentUser)
            /\ unsubscribe' = IF currentUser = NoUser THEN unsubscribe ELSE Len(listeners')
       ELSE /\ Set(cart, FALSE, "permission-denied")
            /\ UNCHANGED <<listeners, unsubscribe>>
    /\ loadCalls' = [loadCalls EXCEPT ![c] = IdleLoadCall]
    /\ UNCHANGED <<carts, cartCalls, version, adopted,
                   currentUser, users, products, orders, orderCalls, products0, permVars,
                   productCalls>>

(***************************************************************************)
(* The derived values of the cart.  Amounts are whole rupees; the prices   *)
(* of the model make 8% of every total a whole number.                     *)
(***************************************************************************)
\* items.reduce((total, item) => total + item.price * item.quantity, total0)
RECURSIVE reduce(_, _)
reduce(items, total) ==
    IF items = <<>> THEN total
    ELSE reduce(Tail(items), total + Head(items).price * Head(items).quantity)

\* get().cart.reduce((total, item) => total + item.quantity, 0)
RECURSIVE reduceQuantity(_, _)
reduceQuantity(items, total) ==
    IF items = <<>> THEN total
    ELSE reduceQuantity(Tail(items), total + Head(items).quantity)

getTotalItems == reduceQuantity(cart, 0)

getTotalPrice == reduce(cart, 0)

getSubtotal == getTotalPrice

\* get().getTotalPrice() * 0.08
getTax == (getTotalPrice * 8) \div 100

getShipping_FreeFrom500 == IF getTotalPrice >= 500 THEN 0 ELSE 50

\* total > 500 ? 0 : 50
getShipping == IF getTotalPrice > 500 THEN 0 ELSE 50

getGrandTotal == getSubtotal + getTax + getShipping

(***************************************************************************)
(* The page is loaded again: the calls in flight and the listeners are     *)
(* gone with the old page, and persist restores the state from             *)
(* localStorage["ramro-cart-storage"], whoever it was written for (the     *)
(* stored function unsubscribe is not serialised).  The auth store has the *)
(* user only after auth has restored the session.                          *)
(***************************************************************************)
Reload ==
    /\ cart' = storage.cart
    /\ loading' = storage.loading
    /\ error' = storage.error
    /\ unsubscribe' = 0
    /\ listeners' = [l \in 1..Len(listeners) |->
                        [listeners[l] EXCEPT !.live = FALSE, !.pending = <<>>]]
    /\ cartCalls' = [c \in CartProcs |-> IdleCartCall]
    /\ loadCalls' = [c \in LoadProcs |-> IdleLoadCall]
    /\ currentUser' = NoUser
    /\ UNCHANGED <<storage, carts, version, adopted, users, products, orders, orderCalls,
                   products0, permVars, productCalls>>

\* the state the store is created with
InitCartVars ==
    /\ cart = <<>>
    /\ loading = FALSE
    /\ error = "null"
    /\ unsubscribe = 0
    /\ listeners = <<>>
    /\ carts = [s \in Subjects |-> NoCart]
    /\ cartCalls = [c \in CartProcs |-> IdleCartCall]
    /\ loadCalls = [c \in LoadProcs |-> IdleLoadCall]
    /\ version = [s \in Subjects |-> 0]
    /\ adopted = [uid |-> NoUser, version |-> 0]
    /\ storage = [cart |-> <<>>, loading |-> FALSE, error |-> "null"]

(***************************************************************************)
(* Order processing on its own.                                            *)
(***************************************************************************)
OrderUserStates == {NoDoc, UserRec("customer", FALSE, FALSE), UserRec("customer", TRUE, FALSE)}

InitOrder ==
    /\ currentUser \in Subjects
    /\ \E u \in OrderUserStates :
          users = [s \in Subjects |-> IF s = U1 THEN UserRec("admin", FALSE, FALSE) ELSE u]
    /\ \E q \in 0..MaxStock, p \in {NoProduct, ProductRec(MaxStock)} :
          products = [i \in ProductIds |-> IF i = "p1" THEN ProductRec(q) ELSE p]
    /\ products0 = products
    /\ orders = {}
    /\ orderCalls = [c \in OrderProcs |-> IdleCall]
    /\ InitPermVars
    /\ productCalls = [c \in ProductProcs |-> IdleProductCall]
    /\ InitCartVars

NextOrder ==
    \E c \in OrderProcs :
        \/ \E data \in OrderDatas, userId \in Subjects : OrderStart(c, data, userId)
        \/ ValidateSession(c)
        \/ ValidateOrderItem(c)
        \/ ValidateInventory(c)
        \/ \E delivered \in BOOLEAN : Commit(c, delivered)
        \/ \E sent \in BOOLEAN : SendConfirmation(c, sent)

SpecOrder == InitOrder /\ [][NextOrder]_vars

(***************************************************************************)
(* Role validation on its own: one subject signs in and out, its user      *)
(* record changes, and validateUserRole('admin') is called.                *)
(***************************************************************************)
RoleUserStates ==
    {NoDoc, UserRec("admin", FALSE, FALSE), UserRec("customer", FALSE, FALSE),
     UserRec("admin", TRUE, FALSE), UserRec("admin", FALSE, TRUE)}

InitRole ==
    /\ currentUser = NoUser
    /\ users = [s \in Subjects |-> UserRec("admin", FALSE, FALSE)]
    /\ products = [i \in ProductIds |-> NoProduct]
    /\ products0 = products
    /\ orders = {}
    /\ orderCalls = [c \in OrderProcs |-> IdleCall]
    /\ InitPermVars
    /\ productCalls = [c \in ProductProcs |-> IdleProductCall]
    /\ InitCartVars

NextRole ==
    \/ \E c \in RoleProcs : BeginValidate(c, "validateUserRole", "admin", "none", "none")
    \/ \E c \in RoleProcs : FetchRead(c)
    \/ \E c \in RoleProcs : FetchResume(c)
    \/ \E u \in {NoUser, U1} : clearCache(u)
    \/ Tick
    \/ \E u \in {NoUser, U1} : AuthChange(u)
    \/ \E rec \in RoleUserStates : UserRecordChange(U1, rec)

SpecRole == InitRole /\ [][NextRole]_vars

(***************************************************************************)
(* checkPermission on its own, one call at a time: the subject's record    *)
(* takes every role.                                                       *)
(***************************************************************************)
Actions == {"create", "read", "update", "delete"}
Resources == {"products", "orders", "users", "analytics", "settings", "profile"}

PermissionUserStates ==
    {UserRec(r, FALSE, FALSE) : r \in Roles}
    \cup {UserRec("admin", TRUE, FALSE), UserRec("admin", FALSE, TRUE)}

NextPermission ==
    \/ \E a \in Actions, r \in Resources :
            BeginValidate(1, "checkPermission", "admin", a, r)
    \/ \E c \in RoleProcs : FetchRead(c)
    \/ \E c \in RoleProcs : FetchResume(c)
    \/ \E u \in {NoUser, U1} : AuthChange(u)
    \/ \E rec \in PermissionUserStates : UserRecordChange(U1, rec)

SpecPermission == InitRole /\ [][NextPermission]_vars

(***************************************************************************)
(* createProduct next to role validation: the subject is an admin or a     *)
(* customer, validateUserRole (one call at a time) fills the cache for     *)
(* both required roles.                                                    *)
(***************************************************************************)
NextProduct ==
    \/ \E c \in ProductProcs, d \in ProductDatas, r \in {"admin", "customer"} :
            CreateStart(c, d, r)
    \/ \E c \in ProductProcs, id \in ProductIds, delivered \in BOOLEAN :
            AddDoc(c, id, delivered)
    \/ \E c \in ProductProcs, done \in BOOLEAN : InitializeInventory(c, done)
    \/ \E c \in ProductProcs, indexed \in BOOLEAN : SyncProductToSearch(c, indexed)
    \/ \E r \in {"admin", "customer"} :
            BeginValidate(1, "validateUserRole", r, "none", "none")
    \/ \E c \in RoleProcs : FetchRead(c)
    \/ \E c \in RoleProcs : FetchResume(c)
    \/ \E u \in {NoUser, U1} : AuthChange(u)
    \/ \E r \in {"admin", "customer"} : UserRecordChange(U1, UserRec(r, FALSE, FALSE))

SpecProduct == InitRole /\ [][NextProduct]_vars

(***************************************************************************)
(* The cart subscription on its own: subjects sign in and out, the store's *)
(* subscribeToCart, unsubscribeFromCart and loadCart are called (App.jsx   *)
(* calls loadCart and subscribeToCart when it mounts), carts/{uid} is      *)
(* written elsewhere and the listeners are sent its snapshots.             *)
(***************************************************************************)
\* the cart documents a write made elsewhere leaves
ServerDocs(uid) ==
    {NoCart, CartDocNoItems,
     CartDoc(<<CartItem([id |-> "p1", price |-> Price("p1")], 1, uid)>>)}

NextSub ==
    \/ subscribeToCart
    \/ unsubscribeFromCart
    \/ LoadStart(1)
    \/ \E active \in BOOLEAN : LoadValidated(1, active)
    \/ LoadRead(1)
    \/ LoadResume(1)
    \/ \E u \in {NoUser, U1} : AuthChange(u)
    \/ \E d \in ServerDocs(U1) : ServerWrite(U1, d)
    \/ \E l \in 1..MaxListeners : DeliverPush(l)
    \/ \E l \in 1..MaxListeners : ListenerError(l)

SpecSub == InitRole /\ [][NextSub]_vars

(***************************************************************************)
(* loadCart on its own: one subject stays signed in, loadCart is called    *)
(* (concurrently), carts/{uid} is written elsewhere.                       *)
(***************************************************************************)
InitLoad ==
    /\ currentUser = U1
    /\ users = [s \in Subjects |-> UserRec("customer", FALSE, FALSE)]
    /\ products = [i \in ProductIds |-> NoProduct]
    /\ products0 = products
    /\ orders = {}
    /\ orderCalls = [c \in OrderProcs |-> IdleCall]
    /\ InitPermVars
    /\ productCalls = [c \in ProductProcs |-> IdleProductCall]
    /\ InitCartVars

NextLoad ==
    \/ \E c \in LoadProcs : LoadStart(c)
    \/ \E c \in LoadProcs, active \in BOOLEAN : LoadValidated(c, active)
    \/ \E c \in LoadProcs : LoadRead(c)
    \/ \E c \in LoadProcs : LoadResume(c)
    \/ \E d \in ServerDocs(U1) : ServerWrite(U1, d)
    \/ \E l \in 1..MaxListeners : DeliverPush(l)

SpecLoad == InitLoad /\ [][NextLoad]_vars

(***************************************************************************)
(* The cart mutations next to the subscription: one subject stays signed   *)
(* in, the store's mutations are called, carts/{uid} is also written       *)
(* elsewhere and the listener is sent every snapshot.                      *)
(***************************************************************************)
QtyArgs == 0..1

NextCart ==
    \/ \E c \in CartProcs, product \in CartProducts : addToCart(c, product, 1)
    \/ \E c \in CartProcs, id \in ProductIds, qty \in QtyArgs \cup {MaxCartQty} :
            updateQuantity(c, id, qty)
    \/ \E c \in CartProcs, id \in ProductIds : removeFromCart(c, id)
    \/ \E c \in CartProcs : clearCart(c)
    \/ \E c \in CartProcs : ServiceWrite(c)
    \/ \E c \in CartProcs : ServiceReject(c)
    \/ \E c \in CartProcs : CartCallResume(c)
    \/ \E product \in CartProducts, qty \in QtyArgs : addToCartLocal(product, qty)
    \/ subscribeToCart
    \/ \E d \in ServerDocs(U1) : ServerWrite(U1, d)
    \/ \E l \in 1..MaxListeners : DeliverPush(l)

SpecCart == InitLoad /\ [][NextCart]_vars

(***************************************************************************)
(* A subject switch: subjects sign in and out while the store subscribes   *)
(* and the cart is filled locally and by pushes, and the page is loaded    *)
(* again.                                                                  *)
(***************************************************************************)
NextSwitch ==
    \/ \E u \in {NoUser, U1, U2} : AuthChange(u)
    \/ Reload
    \/ subscribeToCart
    \/ addToCartLocal([id |-> "p1", price |-> Price("p1")], 1)
    \/ ServerWrite(U1, CartDoc(<<CartItem([id |-> "p2", price |-> Price("p2")], 1, U1)>>))
    \/ \E l \in 1..MaxListeners : DeliverPush(l)

SpecSwitch == InitRole /\ [][NextSwitch]_vars

(***************************************************************************)
(* updateProduct on its own: the signed-in subject is an admin or a        *)
(* customer, products/p1 exists.                                           *)
(***************************************************************************)
InitUpdate ==
    /\ currentUser = U1
    /\ users = [s \in Subjects |-> UserRec("admin", FALSE, FALSE)]
    /\ products = [i \in ProductIds |-> IF i = "p1" THEN ProductRec(MaxStock) ELSE NoProduct]
    /\ products0 = products
    /\ orders = {}
    /\ orderCalls = [c \in OrderProcs |-> IdleCall]
    /\ InitPermVars
    /\ productCalls = [c \in ProductProcs |-> IdleProductCall]
    /\ InitCartVars

NextUpdate ==
    \/ \E c \in ProductProcs, id \in ProductIds, u \in ProductUpdates,
          r \in {"admin", "customer"} : UpdateStart(c, id, u, r)
    \/ \E c \in ProductProcs, delivered \in BOOLEAN : UpdateDoc(c, delivered)
    \/ \E c \in ProductProcs, indexed \in BOOLEAN : SyncProductToSearch(c, indexed)
    \/ \E u \in {NoUser, U1} : AuthChange(u)
    \/ \E r \in {"admin", "customer"} : UserRecordChange(U1, UserRec(r, FALSE, FALSE))

SpecUpdate == InitUpdate /\ [][NextUpdate]_vars

(***************************************************************************)
(* The writes the rules leave to customers: every subject starts as a      *)
(* customer and the user records change only by writes of the signed-in    *)
(* subject's own client; validateUserRole('admin') and createProduct show  *)
(* what the record then opens.                                             *)
(***************************************************************************)
ClientUserRecs ==
    {UserRec(r, FALSE, FALSE) : r \in Roles}

InitEscalate ==
    /\ currentUser = NoUser
    /\ users = [s \in Subjects |-> UserRec("customer", FALSE, FALSE)]
    /\ products = [i \in ProductIds |-> NoProduct]
    /\ products0 = products
    /\ orders = {}
    /\ orderCalls = [c \in OrderProcs |-> IdleCall]
    /\ InitPermVars
    /\ productCalls = [c \in ProductProcs |-> IdleProductCall]
    /\ InitCartVars

NextEscalate ==
    \/ \E u \in {NoUser} \cup Subjects : AuthChange(u)
    \/ \E s \in Subjects, rec \in ClientUserRecs : UserWrite(s, rec)
    \/ BeginValidate(1, "validateUserRole", "admin", "none", "none")
    \/ \E c \in RoleProcs : FetchRead(c)
    \/ \E c \in RoleProcs : FetchResume(c)
    \/ \E c \in ProductProcs :
            CreateStart(c, [name |-> TRUE, description |-> TRUE, category |-> TRUE,
                            price |-> Num(1), quantityAvailable |-> Num(1)], "admin")
    \/ \E c \in ProductProcs, id \in ProductIds : AddDoc(c, id, TRUE)
    \/ \E c \in ProductProcs : InitializeInventory(c, TRUE)
    \/ \E c \in ProductProcs : SyncProductToSearch(c, TRUE)

SpecEscalate == InitEscalate /\ [][NextEscalate]_vars

(***************************************************************************)
(* Properties of order processing.                                         *)
(***************************************************************************)
RECURSIVE OrderedQuantity(_, _)
\* the quantity of product p that the items order
OrderedQuantity(items, p) ==
    IF items = <<>> THEN 0
    ELSE (IF Head(items).id = p THEN Head(items).quantity ELSE 0)
         + OrderedQuantity(Tail(items), p)

\* call c returned an order for exactly one unit of product p
ReturnedOneUnit(c, p) ==
    /\ orderCalls[c].pc = "returned"
    /\ \E o \in orders : o.id = orderCalls[c].orderId /\ OrderedQuantity(o.items, p) = 1

\* C1: of two processOrder calls that each request one unit of a product whose
\* quantityAvailable is 1, never both succeed.
C1_NeverBothSucceed ==
    \A p \in ProductIds :
        (products0[p].exists /\ products0[p].quantityAvailable = 1) =>
            \A c1 \in OrderProcs, c2 \in OrderProcs :
                c1 # c2 => ~(ReturnedOneUnit(c1, p) /\ ReturnedOneUnit(c2, p))

\* C2: a call whose atomic write committed ends by returning the created order, with
\* status processing, whatever the confirmation side effect did; it never ends thrown.
C2_SideEffectIsolation ==
    \A c \in OrderProcs :
        (orderCalls[c].orderId # 0 /\ orderCalls[c].pc \in {"returned", "thrown"}) =>
            /\ orderCalls[c].pc = "returned"
            /\ \E o \in orders : o.id = orderCalls[c].orderId /\ o.status = "processing"

\* C3: the atomic write leaves every referenced product with the quantityAvailable it
\* had in the system of record immediately before, minus the ordered quantity.
C3_DecrementsByOrderedQuantity ==
    [][\A c \in OrderProcs :
          (orderCalls[c].pc = "commit" /\ orderCalls'[c].pc = "email") =>
              \A p \in ProductIds :
                  OrderedQuantity(orderCalls[c].data.items, p) > 0 =>
                      products'[p].quantityAvailable =
                          products[p].quantityAvailable
                            - OrderedQuantity(orderCalls[c].data.items, p)]_vars

\* C4: no product's quantityAvailable is ever negative.
C4_InventoryNeverNegative ==
    \A p \in ProductIds : products[p].quantityAvailable >= 0

ValidationErrors ==
    {"Invalid user session", "User account suspended",
     "Order must contain at least one item", "Shipping address is required",
     "Product not found", "Insufficient stock", "Insufficient inventory"}

\* the awaited validation of call c is about to find a flaw
ValidationFlaw(c) ==
    LET call == orderCalls[c]
    IN  \/ /\ call.pc = "session"
           /\ \/ ~users[call.userId].exists
              \/ users[call.userId].suspended
              \/ Len(call.data.items) = 0
              \/ ~call.data.shipping
        \/ /\ call.pc \in {"orderData", "inventory"}
           /\ products[call.data.items[call.idx].id].quantityAvailable
                < call.data.items[call.idx].quantity

\* C5: when session validation, order-shape validation or inventory validation finds
\* its flaw, the call throws a validation error, it has created no order, and the step
\* changes no order and no product.
C5_ValidationFailureChangesNothing ==
    [][\A c \in OrderProcs :
          (ValidationFlaw(c) /\ orderCalls'[c] # orderCalls[c]) =>
              /\ orderCalls'[c].pc = "thrown"
              /\ orderCalls'[c].err \in ValidationErrors
              /\ orderCalls'[c].orderId = 0
              /\ products' = products
              /\ orders' = orders]_vars

\* C5 witness: a call was refused by validateInventoryAvailability after another
\* call's order was written
C5_Witness ==
    \E c \in OrderProcs :
        /\ orderCalls[c].pc = "thrown"
        /\ orderCalls[c].err = "Insufficient inventory"
        /\ orders # {}

(***************************************************************************)
(* Properties of role validation.                                          *)
(***************************************************************************)
\* some call of validateUserRole(r) begins in this step
BeginsRoleCheck(c, r) == BeginValidate(c, "validateUserRole", r, "none", "none")

\* the age of the entry stored for key
EntryAge(key) == now - sessionCache[key].timestamp

\* C6: a check begun while an entry younger than the TTL is stored for its (subject,
\* requiredRole) pair issues no read and is answered by the verdict of that entry, so
\* that the check that stored the entry and the checks after it within the TTL issue one
\* read in all; a check begun when no entry is stored, or when the age of the entry is
\* >= TTL, issues a fresh read; and the read of an existing, active user record stores
\* an entry stamped with the time of its arrival.
C6_CacheTTL ==
    [][/\ \A c \in RoleProcs, r \in Roles :
            (currentUser # NoUser /\ BeginsRoleCheck(c, r)) =>
                LET key == cacheKey(currentUser, r)
                IN  IF key \in DOMAIN sessionCache /\ EntryAge(key) < cacheTimeout
                    THEN /\ roleCalls' = roleCalls
                         /\ ~lastResult'.fresh
                         /\ lastResult'.pc =
                              IF sessionCache[key].hasPermission THEN "returned" ELSE "thrown"
                    ELSE /\ roleCalls'[c].pc = "fetching"
                         /\ lastResult' = lastResult
       /\ \A c \in RoleProcs :
            (FetchResume(c) /\ roleCalls[c].userDoc.exists
               /\ ~roleCalls[c].userDoc.suspended /\ ~roleCalls[c].userDoc.deactivated) =>
                LET key == cacheKey(roleCalls[c].uid, roleCalls[c].requiredRole)
                IN  /\ key \in DOMAIN sessionCache'
                    /\ sessionCache'[key].timestamp = now
                    /\ lastResult'.fresh]_vars

\* C6 witness: one check was answered from the cache, and a later check for the same
\* pair is reading afresh while the entry, now a TTL old, is still stored
C6_Witness ==
    /\ lastResult.pc = "returned" /\ ~lastResult.fresh
    /\ \E c \in RoleProcs :
          /\ roleCalls[c].pc = "fetching"
          /\ roleCalls[c].requiredRole = lastResult.requiredRole
          /\ cacheKey(roleCalls[c].uid, roleCalls[c].requiredRole) \in DOMAIN sessionCache
          /\ EntryAge(cacheKey(roleCalls[c].uid, roleCalls[c].requiredRole)) >= cacheTimeout

\* C7: the first check begun for a subject after clearCache(subject) issues a fresh read.
C7_InvalidationForcesRead ==
    [][\A c \in RoleProcs, r \in Roles :
          (currentUser # NoUser /\ currentUser \in cleared /\ BeginsRoleCheck(c, r)) =>
              roleCalls'[c].pc = "fetching"]_vars

\* C8: a check for a role the subject's user record has not had for a TTL or longer when
\* the check begins does not succeed, be it answered from the cache or by a read.
C8_BoundedStaleness ==
    [][/\ \A c \in RoleProcs, r \in Roles :
            (/\ currentUser # NoUser
             /\ BeginsRoleCheck(c, r)
             /\ users[currentUser].exists
             /\ users[currentUser].role # r
             /\ ChangedLongAgo(currentUser)
             /\ CacheHit(cacheKey(currentUser, r))) => lastResult'.pc = "thrown"
       /\ \A c \in RoleProcs :
            (/\ FetchResume(c)
             /\ roleCalls[c].late
             /\ users[roleCalls[c].uid].exists
             /\ users[roleCalls[c].uid].role # roleCalls[c].requiredRole)
                => lastResult'.pc = "thrown"]_vars

(***************************************************************************)
(* Properties of createProduct and checkPermission.                        *)
(***************************************************************************)
\* the signed-in subject's user record has role r
SubjectHasRole(r) ==
    currentUser # NoUser /\ users[currentUser].exists /\ users[currentUser].role = r

\* C9: when a subject whose user record has role customer calls createProduct with its
\* own role, the call throws a permission error that names required role admin and
\* actual role customer; and no step writes a product document while the signed-in
\* subject's record has role customer, whatever the cache holds.
C9_CustomerCannotCreateProduct ==
    [][\A c \in ProductProcs :
          SubjectHasRole("customer") =>
              /\ products' = products
              /\ (\E d \in ProductDatas : CreateStart(c, d, "customer")) =>
                     /\ productCalls'[c].pc = "thrown"
                     /\ productCalls'[c].err.required = "admin"
                     /\ productCalls'[c].err.actual = "customer"]_vars

\* C10: for an existing, active user record with role r, checkPermission(action,
\* resource) returns true exactly when action is listed for resource under r.
C10_CheckPermissionFollowsMatrix ==
    [][/\ \A c \in RoleProcs, a \in Actions, r \in Resources :
            (/\ currentUser # NoUser
             /\ BeginValidate(c, "checkPermission", "admin", a, r)
             /\ CacheHit(cacheKey(currentUser, "admin"))) =>
                (lastResult'.pc = "returned") <=>
                    (a \in permissions(sessionCache[cacheKey(currentUser, "admin")]
                                            .userData.role, r))
       /\ \A c \in RoleProcs :
            (/\ FetchResume(c)
             /\ roleCalls[c].kind = "checkPermission"
             /\ roleCalls[c].userDoc.exists
             /\ ~roleCalls[c].userDoc.suspended
             /\ ~roleCalls[c].userDoc.deactivated) =>
                (lastResult'.pc = "returned") <=>
                    (roleCalls[c].action
                        \in permissions(roleCalls[c].userDoc.role, roleCalls[c].resource))
      ]_vars

(***************************************************************************)
(* Properties of the cart subscription.                                    *)
(***************************************************************************)
LiveListeners == {l \in 1..Len(listeners) : listeners[l].live}

\* C11: at most one cart listener is live in every reachable state, and every listener
\* but the one opened last has had its cancellation function called (it was called
\* before the listener that replaced it was opened) and is not live
C11_SingleLiveSubscription ==
    /\ Cardinality(LiveListeners) <= 1
    /\ \A l \in 1..Len(listeners) :
            l < Len(listeners) => listeners[l].cancelled /\ ~listeners[l].live
    /\ unsubscribe \in {0, Len(listeners)}

\* a listener was replaced by subscribeToCart and the one that replaced it is live
C11_Witness ==
    /\ Len(listeners) >= 2
    /\ listeners[Len(listeners)].live
    /\ listeners[1].cancelled
    /\ unsubscribe = Len(listeners)

Resumes(c, pc) == cartCalls[c].pc = pc /\ cartCalls'[c].pc = "idle"

\* C13: addToCart, updateQuantity, removeFromCart and clearCart leave the local cart as
\* it is from the call until the result arrives; on success the local cart becomes the
\* returned authoritative cart (empty for clearCart); on failure the local cart is
\* unchanged and the error slot is set
C13_NoOptimisticMutation ==
    [][\A c \in CartProcs :
        /\ (cartCalls[c].pc = "idle" /\ cartCalls'[c].pc = "awaiting")
                => cart' = cart /\ error' = error
        /\ (cartCalls[c].pc = "awaiting" /\ cartCalls'[c].pc # "awaiting") => cart' = cart
        /\ Resumes(c, "resolved")
                => cart' = (IF cartCalls[c].op = "clearCart" THEN <<>> ELSE cartCalls[c].result)
        /\ Resumes(c, "rejected") => cart' = cart /\ error' # "null"]_vars

\* an authoritative cart was adopted while the local cart held something else, and a
\* later call failed
C13_Witness ==
    /\ adopted.version > 0
    /\ error = "rejected"
    /\ cart # <<>>
    /\ cart # ItemsOf(carts[U1])

C15_PushReplaces ==
    [][\A l \in 1..Len(listeners) :
        DeliverPush(l) =>
            LET snap == Head(listeners[l].pending)
            IN  /\ snap.doc.exists /\ snap.doc.hasItems => cart' = snap.doc.items
                /\ snap.doc.exists /\ ~snap.doc.hasItems => cart' = <<>>
                /\ ~snap.doc.exists => cart' = <<>> /\ error' = error]_vars

\* the listener has been sent the cart document written elsewhere, nothing is left to
\* deliver, and the local cart is exactly the items of the document
C15_Witness ==
    \E l \in 1..Len(listeners) :
        /\ listeners[l].live
        /\ listeners[l].pending = <<>>
        /\ version[U1] > 0
        /\ adopted.version = 0
        /\ carts[U1].exists
        /\ cart # <<>>
        /\ cart = ItemsOf(carts[U1])
        /\ error = "null"

\* C16: once the subscription handle is cleared by unsubscribeFromCart, or the subject
\* has logged out, no snapshot or error callback of a listener changes the local cart,
\* loading or error
C16_NoPushAfterCancel ==
    [][(unsubscribe = 0 \/ currentUser = NoUser) =>
        \A l \in 1..Len(listeners) :
            (DeliverPush(l) \/ ListenerError(l))
                => <<cart, loading, error>>' = <<cart, loading, error>>]_vars

\* C17: the local cart of the signed-in subject holds no item of another subject's cart
C17_NoCrossSubjectLeak ==
    currentUser # NoUser =>
        \A i \in 1..Len(cart) : cart[i].owner \in {currentUser, NoUser}

(***************************************************************************)
(* Properties of the derived values.                                       *)
(***************************************************************************)
\* the sum of price * quantity over the items at the indices in S
RECURSIVE SumOver(_)
SumOver(S) ==
    IF S = {} THEN 0
    ELSE LET i == CHOOSE j \in S : TRUE
         IN  cart[i].price * cart[i].quantity + SumOver(S \ {i})

\* C18: the grand total is subtotal + tax + shipping, the subtotal is the sum of
\* price * quantity over the items, the tax is 8% of the subtotal, and shipping is 0
\* when the subtotal is above 500 and 50 otherwise
C18_DerivedTotals ==
    /\ getGrandTotal = getSubtotal + getTax + getShipping
    /\ getSubtotal = SumOver(1..Len(cart))
    /\ getTax * 100 = getSubtotal * 8
    /\ getShipping = (IF getSubtotal > 500 THEN 0 ELSE 50)

\* a cart of one item whose subtotal is exactly 500
C18_Witness == Len(cart) = 1 /\ cart[1].quantity = MaxCartQty /\ getSubtotal = 500

(***************************************************************************)
(* Properties of the cart items.                                           *)
(***************************************************************************)
\* C19: updateQuantity(id, q) with q <= 0 does what removeFromCart(id) does (the same
\* service call is awaited and nothing else changes), and when it has settled no item
\* with that id is left in the cart with quantity q
C19_QuantityZeroRemoves ==
    [][\A c \in CartProcs :
        /\ \A id \in ProductIds, q \in {qty \in QtyArgs : qty <= 0} :
                updateQuantity(c, id, q) =>
                    /\ cartCalls'[c].op = "removeFromCart"
                    /\ cartCalls'[c].product.id = id
                    /\ cartCalls'[c].uid = currentUser
                    /\ <<cart, loading, error>>' = <<cart, loading, error>>
        /\ (/\ cartCalls[c].caller = "updateQuantity"
            /\ cartCalls[c].arg <= 0
            /\ cartCalls'[c].pc = "idle")
                => ~\E i \in 1..Len(cart') :
                        /\ cart'[i].id = cartCalls[c].product.id
                        /\ cart'[i].quantity = cartCalls[c].arg]_vars

\* C20: every item of the local cart has a quantity above 0
C20_QuantityPositive == \A i \in 1..Len(cart) : cart[i].quantity > 0

(***************************************************************************)
(* Properties of the persisted cart.                                       *)
(***************************************************************************)
\* C21: the local cart right after a reload of the page is the local cart right before
\* it, and so is the item count
C21_PersistenceRoundTrip ==
    [][Reload => cart' = cart /\ getTotalItems' = getTotalItems]_vars

\* the page was loaded again (a listener is dead that nobody cancelled) and the
\* restored cart holds items
C21_Witness ==
    /\ currentUser = NoUser
    /\ unsubscribe = 0
    /\ \E l \in 1..Len(listeners) : ~listeners[l].live /\ ~listeners[l].cancelled
    /\ getTotalItems = MaxCartQty

(***************************************************************************)
(* Properties of the product operations.                                   *)
(***************************************************************************)
\* every required field is present, price > 0 and quantityAvailable >= 0
FieldsValid(d) ==
    /\ d.name /\ d.description /\ d.category
    /\ d.price.defined /\ d.price.value > 0
    /\ d.quantityAvailable.defined /\ d.quantityAvailable.value >= 0

\* C22: createProduct called by an admin rejects the product, writing nothing, exactly
\* when a required field is not present, or price <= 0, or quantityAvailable < 0
C22_ValidationExact ==
    [][\A c \in ProductProcs, d \in ProductDatas :
        CreateStart(c, d, "admin") =>
            /\ productCalls'[c].pc = "thrown" <=> ~FieldsValid(d)
            /\ products' = products]_vars

\* an update that sets price <= 0 or quantityAvailable < 0
InvalidUpdate(u) ==
    \/ u.price.defined /\ u.price.value <= 0
    \/ u.quantityAvailable.defined /\ u.quantityAvailable.value < 0

\* C23: updateProduct called by an admin with an update that sets price <= 0 or
\* quantityAvailable < 0 is rejected with an error, and no such update is written to
\* the product document
C23_UpdateValidates ==
    [][\A c \in ProductProcs :
        /\ \A id \in ProductIds, u \in ProductUpdates :
                UpdateStart(c, id, u, "admin") /\ InvalidUpdate(u)
                    => productCalls'[c].pc = "thrown"
        /\ (productCalls[c].pc = "updateDoc" /\ InvalidUpdate(productCalls[c].data))
                => products' = products]_vars

(***************************************************************************)
(* Properties of the cached verdicts.                                      *)
(***************************************************************************)
\* C24: with a usable entry whose hasPermission is false, validateUserRole throws
\* 'Insufficient permissions' and reads nothing; it returns without a read only from a
\* usable entry whose hasPermission is true; and the record it returns always has
\* the required role
C24_NegativeVerdictCached ==
    [][/\ \A c \in RoleProcs, r \in Roles :
            (/\ BeginValidate(c, "validateUserRole", r, "none", "none")
             /\ currentUser # NoUser) =>
                LET key == cacheKey(currentUser, r)
                IN  /\ (CacheHit(key) /\ ~sessionCache[key].hasPermission)
                        => /\ lastResult'.pc = "thrown"
                           /\ lastResult'.err = Error("Insufficient permissions")
                           /\ roleCalls' = roleCalls
                    /\ (roleCalls' = roleCalls /\ lastResult'.pc = "returned")
                        => /\ CacheHit(key) /\ sessionCache[key].hasPermission
                           /\ lastResult'.ret = sessionCache[key].userData
       /\ (lastResult'.pc = "returned" /\ lastResult'.kind = "validateUserRole")
            => lastResult'.ret.role = lastResult'.requiredRole]_vars

\* a negative verdict was served from the cache
C24_Witness ==
    /\ lastResult.pc = "thrown"
    /\ ~lastResult.fresh
    /\ lastResult.err = Error("Insufficient permissions")
    /\ \E r \in Roles :
            /\ CacheHit(cacheKey(currentUser, r))
            /\ ~sessionCache[cacheKey(currentUser, r)].hasPermission

(***************************************************************************)
(* Properties of the local cart against the system of record.              *)
(***************************************************************************)
\* the listener stored in the store is live, watches the cart of the signed-in subject
\* and has nothing left to deliver, and no mutation or load is in flight
Quiescent ==
    /\ currentUser # NoUser
    /\ unsubscribe # 0
    /\ listeners[unsubscribe].live
    /\ listeners[unsubscribe].uid = currentUser
    /\ listeners[unsubscribe].pending = <<>>
    /\ \A c \in CartProcs : cartCalls[c].pc = "idle"
    /\ \A c \in LoadProcs : loadCalls[c].pc = "idle"

\* C25: while the subscription is live, once no mutation or load is in flight and every
\* push has been delivered, the local cart is the cart in the system of record
C25_EventualReconciliation ==
    Quiescent => cart = ItemsOf(carts[currentUser])

C26_NoStaleRepopulation ==
    [][\A c \in RoleProcs :
        (roleCalls[c].pc = "fetched" /\ roleCalls[c].stale /\ roleCalls'[c].pc = "idle")
            => sessionCache' = sessionCache]_vars

(***************************************************************************)
(* Properties of createProduct and processOrder against the document store.*)
(***************************************************************************)
\* C27: a createProduct call that has reported failure to its caller has created no
\* product document
C27_CreateFailureAtomic ==
    \A c \in ProductProcs :
        productCalls[c].pc = "thrown" => productCalls[c].id = "none"

\* the caller of call c is the signed-in subject, a customer that is not suspended, and
\* its order carries the total and names products that exist and are in stock
CustomerOrder(c) ==
    /\ currentUser # NoUser
    /\ orderCalls[c].userId = currentUser
    /\ users[currentUser] = UserRec("customer", FALSE, FALSE)
    /\ orderCalls[c].data.total
    /\ \A i \in 1..Len(orderCalls[c].data.items) :
            LET item == orderCalls[c].data.items[i]
            IN  /\ products[item.id].exists
                /\ item.quantity <= products[item.id].quantityAvailable
                /\ item.quantity <= item.quantityAvailable

\* C28: the batch of a signed-in customer's valid order, when it reaches the document
\* store, is accepted by the rules
C28_CustomerCanOrder ==
    [][\A c \in OrderProcs :
        (CustomerOrder(c) /\ Commit(c, TRUE)) => orderCalls'[c].pc = "email"]_vars

(***************************************************************************)
(* Properties of the security rules of the user records.                   *)
(***************************************************************************)
\* C29: when the user records change only by writes the rules permit to their owners,
\* no subject that started as a customer has a user record with role admin
C29_NoSelfEscalation ==
    \A s \in Subjects : users[s].role # "admin"

====
